---- MODULE Spec2Model ----
(***************************************************************************)
(* StockSense: the indicator engine, the safety filter and the signal      *)
(* scorer of src/stocksense_engine.py, and the market scan of              *)
(* src/app_pro.py (main, "Market Scanner" page).                           *)
(*                                                                         *)
(* Numbers.  The code computes in IEEE doubles through pandas.  A value is *)
(* modelled as an exact rational n/d, or NaN, or +/-infinity, with the     *)
(* IEEE rules for division by zero (x/0 = inf, 0/0 = NaN), so that a       *)
(* fillna() of the code replaces exactly the values it replaces there.     *)
(* Volumes are counted in units of VolUnit shares so that the liquidity    *)
(* threshold stays within TLC's integers.                                  *)
(***************************************************************************)
EXTENDS Integers, Sequences, FiniteSets, TLC

----------------------------------------------------------------------------
(* Extended rationals *)

Abs(x) == IF x < 0 THEN -x ELSE x

RECURSIVE GCD(_, _)
GCD(a, b) == IF b = 0 THEN a ELSE GCD(b, a % b)

\* The rational n/d (d # 0) in lowest terms with a positive denominator.
Fin(n, d) ==
    LET g == GCD(Abs(n), Abs(d))
        s == IF d < 0 THEN -1 ELSE 1
    IN  [k |-> "fin", n |-> (s * n) \div g, d |-> (s * d) \div g]

NaN == [k |-> "nan", n |-> 0, d |-> 1]

Inf(s) == [k |-> "inf", n |-> s, d |-> 1]

Num(x) == Fin(x, 1)

Sign(a) == IF a.n > 0 THEN 1 ELSE IF a.n < 0 THEN -1 ELSE 0

IsFinite(a) == a.k = "fin"

IsNaN(a) == a.k = "nan"

FNeg(a) == [a EXCEPT !.n = -a.n]

FAdd(a, b) ==
    IF IsNaN(a) \/ IsNaN(b) THEN NaN
    ELSE IF a.k = "inf" /\ b.k = "inf" THEN (IF a.n = b.n THEN a ELSE NaN)
    ELSE IF a.k = "inf" THEN a
    ELSE IF b.k = "inf" THEN b
    ELSE Fin(a.n * b.d + b.n * a.d, a.d * b.d)

FSub(a, b) == FAdd(a, FNeg(b))

FMul(a, b) ==
    IF IsNaN(a) \/ IsNaN(b) THEN NaN
    ELSE IF a.k = "inf" \/ b.k = "inf"
         THEN (IF Sign(a) * Sign(b) = 0 THEN NaN ELSE Inf(Sign(a) * Sign(b)))
    ELSE Fin(a.n * b.n, a.d * b.d)

\* IEEE division: x/0 is +/-inf for x # 0 and NaN for x = 0 (zeros are +0).
FDiv(a, b) ==
    IF IsNaN(a) \/ IsNaN(b) THEN NaN
    ELSE IF a.k = "inf"
         THEN (IF b.k = "inf" THEN NaN
               ELSE Inf(a.n * (IF b.n < 0 THEN -1 ELSE 1)))
    ELSE IF b.k = "inf" THEN Num(0)
    ELSE IF b.n = 0 THEN (IF a.n = 0 THEN NaN ELSE Inf(Sign(a)))
    ELSE Fin(a.n * b.d, a.d * b.n)

\* a > b as IEEE compares: false when either side is NaN.
GT(a, b) ==
    IF IsNaN(a) \/ IsNaN(b) THEN FALSE
    ELSE IF a.k = "inf" THEN a.n = 1 /\ ~(b.k = "inf" /\ b.n = 1)
    ELSE IF b.k = "inf" THEN b.n = -1
    ELSE a.n * b.d > b.n * a.d

LT(a, b) == GT(b, a)

\* pandas Series.fillna(v) on one value.
fillna(a, v) == IF IsNaN(a) THEN v ELSE a

----------------------------------------------------------------------------
(* DataIngestion: src/stocksense_engine.py *)

\* One share-count unit of the model's volumes (a volume v stands for
\* v * VolUnit shares).
VolUnit == 1000 * 1000

MinBars == 20
MinPrice == 60
MinLiquidity == 2000000000
LiquidityWindow == 20
VwapWindow == 20
RsiWindow == 14
VolMaWindow == 20
MfiWindow == 14
CmfWindow == 20
RsiFill == 50
MfiFill == 50
RvolFill == 1
CmfFill == 0

\* A bar is [high, low, close, volume]; 'open' is required by fetch_data's
\* schema check but read by no computation, and is left out.

RECURSIVE SumRange(_, _, _)
\* col[lo] + ... + col[hi], NaN as soon as one term is NaN.
SumRange(col, lo, hi) ==
    IF lo > hi THEN Num(0) ELSE FAdd(SumRange(col, lo, hi - 1), col[hi])

\* Series.rolling(window=w).sum() at row i (min_periods = w).
RollSum(col, w, i) == IF i < w THEN NaN ELSE SumRange(col, i - w + 1, i)

\* Series.rolling(window=w).mean() at row i.
RollMean(col, w, i) == FDiv(RollSum(col, w, i), Num(w))

\* Series.iloc[-w:].mean() of a non-empty column.
TailMean(col, n, w) ==
    LET lo == IF n > w THEN n - w + 1 ELSE 1
    IN  FDiv(SumRange(col, lo, n), Num(n - lo + 1))

\* The liquidity threshold in the model's volume unit.
LiquidityFloor == Fin(MinLiquidity, VolUnit)

\* check_safety_criteria with the price test written < instead of <=.
check_safety_criteria_lt(d) ==
    LET n == Len(d)
        last_close == Num(d[n].close)
        avg_vol == TailMean([i \in 1..n |-> Num(d[i].volume)], n, LiquidityWindow)
        avg_liquidity == FMul(avg_vol, last_close)
    IN  IF n = 0 \/ n < MinBars THEN <<FALSE, "Insufficient Data">>
        ELSE IF LT(last_close, Num(MinPrice)) THEN <<FALSE, "Price too low">>
        ELSE IF LT(avg_liquidity, LiquidityFloor) THEN <<FALSE, "Low Liquidity">>
        ELSE <<TRUE, "Pass">>

\* check_safety_criteria(df) -> (is_safe, reason).
check_safety_criteria(d) ==
    LET n == Len(d)
        last_close == Num(d[n].close)
        avg_vol == TailMean([i \in 1..n |-> Num(d[i].volume)], n, LiquidityWindow)
        avg_liquidity == FMul(avg_vol, last_close)
    IN  IF n = 0 \/ n < MinBars THEN <<FALSE, "Insufficient Data">>
        ELSE IF ~GT(last_close, Num(MinPrice)) THEN <<FALSE, "Price too low">>
        ELSE IF LT(avg_liquidity, LiquidityFloor) THEN <<FALSE, "Low Liquidity">>
        ELSE <<TRUE, "Pass">>

\* mfi_raw as the ratio would be guarded: undefined whenever the negative
\* sum is zero.
mfi_raw_guarded(pos, neg) ==
    IF neg = Num(0) THEN NaN
    ELSE FSub(Num(100), FDiv(Num(100), FAdd(Num(1), FDiv(pos, neg))))

\* The MFI column before its fill: 100 - 100 / (1 + pos/neg).
mfi_raw(pos, neg) ==
    FSub(Num(100), FDiv(Num(100), FAdd(Num(1), FDiv(pos, neg))))

\* fill_critical_columns without the fill of rvol.
fill_critical_columns_no_rvol(r) ==
    [r EXCEPT !.rsi = fillna(r.rsi, Num(RsiFill)),
              !.vwap = fillna(r.vwap, r.close)]

\* Step 8 of calculate_indicators: the fills of rvol, rsi and vwap.
fill_critical_columns(r) ==
    [r EXCEPT !.rvol = fillna(r.rvol, Num(RvolFill)),
              !.rsi = fillna(r.rsi, Num(RsiFill)),
              !.vwap = fillna(r.vwap, r.close)]

\* calculate_indicators(df): the rows of the enriched frame.  The Bollinger
\* bands and sma_200 feed no other column and are left out; positive_mf_sum
\* and negative_mf_sum are the function's local series, kept per row.
calculate_indicators(d) ==
    LET n == Len(d)
        I == 1..n
        volume == [i \in I |-> Num(d[i].volume)]
        close == [i \in I |-> Num(d[i].close)]
        tp == [i \in I |-> Fin(d[i].high + d[i].low + d[i].close, 3)]
        raw_money_flow == [i \in I |-> FMul(tp[i], volume[i])]
        vol_sum == [i \in I |-> RollSum(volume, VwapWindow, i)]
        vwap == [i \in I |-> FDiv(RollSum(raw_money_flow, VwapWindow, i), vol_sum[i])]
        delta == [i \in I |-> IF i = 1 THEN NaN ELSE FSub(close[i], close[i - 1])]
        up == [i \in I |-> IF GT(delta[i], Num(0)) THEN delta[i] ELSE Num(0)]
        dn == [i \in I |-> IF LT(delta[i], Num(0)) THEN FNeg(delta[i]) ELSE Num(0)]
        gain == [i \in I |-> RollMean(up, RsiWindow, i)]
        loss == [i \in I |-> RollMean(dn, RsiWindow, i)]
        rsi == [i \in I |->
                 FSub(Num(100), FDiv(Num(100), FAdd(Num(1), FDiv(gain[i], loss[i]))))]
        vol_ma_20 == [i \in I |-> RollMean(volume, VolMaWindow, i)]
        rvol == [i \in I |-> FDiv(volume[i], vol_ma_20[i])]
        positive_flow == [i \in I |->
                 IF i > 1 /\ GT(tp[i], tp[i - 1]) THEN raw_money_flow[i] ELSE Num(0)]
        negative_flow == [i \in I |->
                 IF i > 1 /\ LT(tp[i], tp[i - 1]) THEN raw_money_flow[i] ELSE Num(0)]
        positive_mf_sum == [i \in I |-> RollSum(positive_flow, MfiWindow, i)]
        negative_mf_sum == [i \in I |-> RollSum(negative_flow, MfiWindow, i)]
        mfi == [i \in I |->
                 fillna(mfi_raw(positive_mf_sum[i], negative_mf_sum[i]), Num(MfiFill))]
        mfm == [i \in I |->
                 fillna(FDiv(Num((d[i].close - d[i].low) - (d[i].high - d[i].close)),
                             Num(d[i].high - d[i].low)), Num(0))]
        mfv == [i \in I |-> FMul(mfm[i], volume[i])]
        cmf == [i \in I |->
                 fillna(FDiv(RollSum(mfv, CmfWindow, i), RollSum(volume, CmfWindow, i)),
                        Num(CmfFill))]
    IN  [i \in I |->
            fill_critical_columns(
                [close |-> close[i],
                 volume |-> volume[i],
                 vwap |-> vwap[i],
                 rsi |-> rsi[i],
                 rvol |-> rvol[i],
                 mfi |-> mfi[i],
                 cmf |-> cmf[i],
                 positive_mf_sum |-> positive_mf_sum[i],
                 negative_mf_sum |-> negative_mf_sum[i]])]

----------------------------------------------------------------------------
(* SmartMoneyAnalyzer: src/stocksense_engine.py *)

RvolSpike == Fin(3, 2)
CmfStrong == Fin(15, 100)
CmfModerate == Fin(5, 100)
CmfDistribution == Fin(-5, 100)
MfiOversold == 30
MfiOverbought == 75
MaxScore == 5

Min(a, b) == IF a < b THEN a ELSE b

\* raw_score with the CMF tiers compared >= instead of >.
raw_score_ge(r) ==
    (IF GT(r.rvol, RvolSpike) THEN 2 ELSE 0)
    + (IF ~LT(r.cmf, CmfStrong) THEN 2
       ELSE IF ~LT(r.cmf, CmfModerate) THEN 1 ELSE 0)
    + (IF GT(r.close, r.vwap) THEN 1 ELSE 0)
    + (IF LT(r.mfi, Num(MfiOversold)) /\ GT(r.close, r.vwap) THEN 1 ELSE 0)

\* The points analyze_single_row adds up before the cap.
raw_score(r) ==
    (IF GT(r.rvol, RvolSpike) THEN 2 ELSE 0)
    + (IF GT(r.cmf, CmfStrong) THEN 2
       ELSE IF GT(r.cmf, CmfModerate) THEN 1 ELSE 0)
    + (IF GT(r.close, r.vwap) THEN 1 ELSE 0)
    + (IF LT(r.mfi, Num(MfiOversold)) /\ GT(r.close, r.vwap) THEN 1 ELSE 0)

\* The narrative fragments, in rule order.
narrative(r) ==
    (IF GT(r.rvol, RvolSpike) THEN <<"VOLUME SPIKE (> 1.5x).">> ELSE <<>>)
    \o (IF GT(r.cmf, CmfStrong)
        THEN <<"Strong Institutional Accumulation (CMF > 0.15).">>
        ELSE IF GT(r.cmf, CmfModerate) THEN <<"Moderate Inflow (CMF > 0.05).">>
        ELSE IF LT(r.cmf, CmfDistribution)
             THEN <<"Distribution Detected (CMF < -0.05).">>
        ELSE <<>>)
    \o (IF GT(r.close, r.vwap) THEN <<"Bullish Trend > VWAP.">>
        ELSE <<"Price below Intraday Trend (VWAP).">>)
    \o (IF LT(r.mfi, Num(MfiOversold)) /\ GT(r.close, r.vwap)
        THEN <<"Strategic Dip Buy (Oversold + Uptrend).">>
        ELSE IF GT(r.mfi, Num(MfiOverbought)) THEN <<"Overbought Conditions.">>
        ELSE <<>>)

\* status_of with the STRONG BUY threshold one too high.
status_of_late(score) ==
    IF score >= 5 THEN "STRONG BUY"
    ELSE IF score >= 2 THEN "ACCUMULATION"
    ELSE "NEUTRAL/WAIT"

\* The final decision status from the capped score.
status_of(score) ==
    IF score >= 4 THEN "STRONG BUY"
    ELSE IF score >= 2 THEN "ACCUMULATION"
    ELSE "NEUTRAL/WAIT"

\* analyze_single_row without the cap on the score.
analyze_single_row_nocap(r) ==
    [status |-> status_of(raw_score(r)),
     score |-> raw_score(r),
     details |-> narrative(r)]

\* analyze_single_row(row) -> {status, score, details}.
analyze_single_row(r) ==
    LET score == Min(raw_score(r), MaxScore)
    IN  [status |-> status_of(score),
         score |-> score,
         details |-> narrative(r)]

----------------------------------------------------------------------------
(* Inputs of the engine: daily bars and indicator rows *)

MaxLen == 21
MaxTail == 2

Bar(h, l, c, v) == [high |-> h, low |-> l, close |-> c, volume |-> v]

\* A flat bar, a flat bar without volume, a rising bar closing near its
\* high, and a falling bar closing at the minimum price.
BarTypes == {Bar(100, 100, 100, 20), Bar(100, 100, 100, 0),
             Bar(112, 100, 110, 80), Bar(64, 58, 60, 80)}

RECURSIVE RunLen(_)
\* The length of the run of bars equal to the first one.
RunLen(d) ==
    IF Len(d) <= 1 THEN Len(d)
    ELSE IF d[Len(d)] = d[1] /\ RunLen(SubSeq(d, 1, Len(d) - 1)) = Len(d) - 1
         THEN Len(d)
    ELSE RunLen(SubSeq(d, 1, Len(d) - 1))

\* The series of the model: a run of one bar followed by at most MaxTail
\* arbitrary bars, at most MaxLen bars in all.
InBounds(d) == Len(d) <= MaxLen /\ Len(d) - RunLen(d) <= MaxTail

\* Indicator rows on, just below and just above every threshold of the scorer.
RowValues ==
    [close : {Num(99), Num(100), Num(101)},
     vwap : {Num(100)},
     rvol : {Num(1), RvolSpike, Num(2)},
     cmf : {Fin(-6, 100), CmfDistribution, Num(0), CmfModerate, Fin(6, 100),
            CmfStrong, Fin(16, 100)},
     mfi : {Num(29), Num(MfiOversold), Num(50), Num(MfiOverbought), Num(76)}]

NoRow == [close |-> NaN]
NoAnalysis == [status |-> "", score |-> -1, details |-> <<>>]

----------------------------------------------------------------------------
(* The market scan: src/app_pro.py, main, page "Smart Screener" *)

MaxWorkers == 8
TopN == 10
RecentRows == 14
MaxTokens == 3
MaxScans == 2

\* Text is a sequence of one-character strings.
UpperChar(c) == IF c = "a" THEN "A" ELSE c

\* str.upper().
Upper(t) == [i \in 1..Len(t) |-> UpperChar(t[i])]

\* str.replace(" ", "").
ReplaceSpaces(t) == LET NotSpace(c) == c # " " IN SelectSeq(t, NotSpace)

\* The characters str.strip() removes.
Whitespace == {" ", "\n", "\t"}

RECURSIVE Strip(_)
\* str.strip().
Strip(t) ==
    IF t = <<>> THEN t
    ELSE IF t[1] \in Whitespace THEN Strip(Tail(t))
    ELSE IF t[Len(t)] \in Whitespace THEN Strip(SubSeq(t, 1, Len(t) - 1))
    ELSE t

RECURSIVE Split(_, _)
\* str.split(sep): the pieces between the separators, empty ones kept.
Split(t, sep) ==
    IF \A i \in 1..Len(t) : t[i] # sep THEN <<t>>
    ELSE LET k == CHOOSE i \in 1..Len(t) :
                      t[i] = sep /\ \A j \in 1..(i - 1) : t[j] # sep
         IN  <<SubSeq(t, 1, k - 1)>> \o Split(SubSeq(t, k + 1, Len(t)), sep)

Range(q) == {q[i] : i \in 1..Len(q)}

\* The manual branch of the decision engine: the tokens of the text area.
manual_ticker_list(user_tickers) ==
    LET raw_list == Split(ReplaceSpaces(Upper(user_tickers)), ",")
        NonEmpty(t) == t # <<>>
    IN  SelectSeq(raw_list, NonEmpty)

\* The sector table, cut to one sector of three tickers.
NoSector == "Manual Input / None"
SECTOR_MAP == [Financials |-> << <<"A">>, <<"B">>, <<"C">> >>]
SectorOptions == {NoSector} \cup DOMAIN SECTOR_MAP

\* What the user may type between two commas.
RawTokens == {<<>>, <<"a">>, <<"A", " ">>, <<"\n", "a">>}

RECURSIVE Join(_)
\* The tokens with commas between them.
Join(toks) ==
    IF toks = <<>> THEN <<>>
    ELSE IF Len(toks) = 1 THEN toks[1]
    ELSE toks[1] \o <<",">> \o Join(Tail(toks))

UserTexts ==
    {Join(toks) : toks \in UNION {[1..n -> RawTokens] : n \in 0..MaxTokens}}

\* The decision engine, lines 295-312: manual input first, then the sector,
\* else a warning and st.stop().
decision(user_tickers, selected_sector) ==
    IF Strip(user_tickers) # <<>>
    THEN [stop |-> FALSE, scan_mode |-> "MANUAL",
          final_ticker_list |-> manual_ticker_list(user_tickers)]
    ELSE IF selected_sector # NoSector
    THEN [stop |-> FALSE, scan_mode |-> "SECTOR_TOP10",
          final_ticker_list |-> SECTOR_MAP[selected_sector]]
    ELSE [stop |-> TRUE, scan_mode |-> "MANUAL", final_ticker_list |-> <<>>]

\* The decisions over every text and sector of the model, computed once.
ScanRequests == {decision(u, s) : u \in UserTexts, s \in SectorOptions}

Rep(bar, n) == [i \in 1..n |-> bar]

FlatBar == Bar(100, 100, 100, 20)
ZeroBar == Bar(100, 100, 100, 0)
UpBar == Bar(112, 100, 110, 80)

\* Series a fetch may return: too short, flat, and flat with a volume spike
\* on the last bar.
ShortSeries == Rep(FlatBar, 19)
FlatSeries == Rep(FlatBar, 20)
SpikeSeries == Rep(FlatBar, 20) \o <<UpBar>>
Catalog == {ShortSeries, FlatSeries, SpikeSeries}

\* What a per-ticker task can meet: future.result() raising, an empty frame
\* (fetch_data's own failures), a frame, or a frame on which one of the later
\* steps raises.
FetchOutcomes ==
    {[exc |-> TRUE, df |-> <<>>, fault |-> "none"]}
    \cup {[exc |-> FALSE, df |-> d, fault |-> "none"] : d \in {<<>>} \cup Catalog}
    \cup {[exc |-> FALSE, df |-> SpikeSeries, fault |-> f] :
              f \in {"safety", "indicators", "scoring"}}

\* round(x, digits) with p = 10^digits: to the nearest, ties to even.
Round(a, p) ==
    LET num == a.n * p
        q == num \div a.d
        r == num % a.d
        up == 2 * r > a.d \/ (2 * r = a.d /\ q % 2 = 1)
    IN  Fin(IF up THEN q + 1 ELSE q, p)

RECURSIVE MaxOf(_, _, _)
\* Series.max() of col[lo..hi].
MaxOf(col, lo, hi) ==
    IF lo = hi THEN col[lo]
    ELSE LET m == MaxOf(col, lo, hi - 1) IN IF GT(col[hi], m) THEN col[hi] ELSE m

\* result_row with the 14 rows before the latest one as its window.
result_row_prior(t, rows) ==
    LET n == Len(rows)
        latest == rows[n]
        max_rvol == MaxOf([i \in 1..n |-> rows[i].rvol], n - RecentRows, n - 1)
        a == analyze_single_row(latest)
    IN  [Ticker |-> t,
         Close |-> Round(latest.close, 1),
         RVOL |-> Round(latest.rvol, 100),
         MaxRVOL |-> Round(max_rvol, 100),
         MFI |-> Round(latest.mfi, 10),
         CMF |-> Round(latest.cmf, 100),
         Status |-> a.status,
         Score |-> a.score]

\* Steps 3 and 4 of the loop body: the row appended for ticker t.
result_row(t, rows) ==
    LET n == Len(rows)
        latest == rows[n]
        lo == IF n > RecentRows THEN n - RecentRows + 1 ELSE 1
        max_rvol == MaxOf([i \in 1..n |-> rows[i].rvol], lo, n)
        a == analyze_single_row(latest)
    IN  [Ticker |-> t,
         Close |-> Round(latest.close, 1),
         RVOL |-> Round(latest.rvol, 100),
         MaxRVOL |-> Round(max_rvol, 100),
         MFI |-> Round(latest.mfi, 10),
         CMF |-> Round(latest.cmf, 100),
         Status |-> a.status,
         Score |-> a.score]

\* The safety filter and, for a frame that passes, the fields of its row.
Pipeline(d) ==
    LET s == check_safety_criteria(d)
    IN  [safe |-> s[1],
         fields |-> IF s[1] THEN result_row(<<>>, calculate_indicators(d)) ELSE <<>>]

\* Pipeline on the frames a fetch may return, computed once.
PipelineOf == [d \in {<<>>} \cup Catalog |-> Pipeline(d)]

\* The try block of one loop iteration: whether it raised, and the rows it
\* appended.
try_body(t, out) ==
    IF out.exc \/ out.fault = "safety" THEN [raised |-> TRUE, rows |-> <<>>]
    ELSE IF ~PipelineOf[out.df].safe THEN [raised |-> FALSE, rows |-> <<>>]
    ELSE IF out.fault \in {"indicators", "scoring"} THEN [raised |-> TRUE, rows |-> <<>>]
    ELSE [raised |-> FALSE,
          rows |-> <<[PipelineOf[out.df].fields EXCEPT !.Ticker = t]>>]

\* Whether a ticker's outcome ends in an appended row.
Passes(out) == try_body(<<>>, out).rows # <<>>

\* Descending order of the sector ranking: Signal Score, then RVOL (Today).
SectorBefore(a, b) ==
    a.Score > b.Score \/ (a.Score = b.Score /\ GT(a.RVOL, b.RVOL))

\* Descending order of the manual ranking: Max RVOL (14D).
ManualBefore(a, b) == GT(a.MaxRVOL, b.MaxRVOL)

\* q with r put at place k.
InsertAt(q, k, r) == SubSeq(q, 1, k - 1) \o <<r>> \o SubSeq(q, k, Len(q))

RECURSIVE sort_sector(_)
\* sort_values(by=[Signal Score, RVOL (Today)], ascending=[False, False]):
\* a stable sort, rows of equal keys stay in their order.
sort_sector(rows) ==
    IF rows = <<>> THEN <<>>
    ELSE LET q == sort_sector(SubSeq(rows, 1, Len(rows) - 1))
             r == rows[Len(rows)]
             after == {i \in 1..Len(q) : SectorBefore(r, q[i])}
             k == IF after = {} THEN Len(q) + 1
                  ELSE CHOOSE i \in after : \A j \in after : i <= j
         IN  InsertAt(q, k, r)

RECURSIVE sort_manual(_)
\* sort_values(by=Max RVOL (14D), ascending=False): the default sort kind is
\* not stable, so rows of equal keys may come out in any order.
sort_manual(rows) ==
    IF rows = <<>> THEN {<<>>}
    ELSE LET r == rows[Len(rows)]
         IN  UNION {{InsertAt(q, k, r) :
                        k \in {i \in 1..(Len(q) + 1) :
                                  /\ \A j \in 1..(i - 1) : ~ManualBefore(r, q[j])
                                  /\ \A j \in i..Len(q) : ~ManualBefore(q[j], r)}} :
                    q \in sort_manual(SubSeq(rows, 1, Len(rows) - 1))}

\* DataFrame.head(n).
head(q, n) == SubSeq(q, 1, Min(n, Len(q)))

\* rank_sector with the slice taken before the sort.
rank_sector_head_first(rows) == sort_sector(head(rows, TopN))

\* The ranking algorithm of the sector mode: sort, then the top 10.
rank_sector(rows) == head(sort_sector(rows), TopN)

\* rank with the slice of the sector mode taken in the manual mode too.
rank_truncated(mode, rows) ==
    IF mode = "SECTOR_TOP10" THEN {rank_sector(rows)}
    ELSE {head(q, TopN) : q \in sort_manual(rows)}

\* The tables the ranking of a scan may produce.
rank(mode, rows) ==
    IF mode = "SECTOR_TOP10" THEN {rank_sector(rows)} ELSE sort_manual(rows)

\* completed_count counted only for the tickers that raise nothing.
increment_completed_ok(c, raised) == IF raised THEN c ELSE c + 1

\* completed_count += 1, before the try block.
increment_completed(c, raised) == c + 1

\* progress = int((completed_count / total_tickers) * 100).
progress_of(c, total) == (c * 100) \div total

\* escapes with future.result() read outside the try block.
escapes_fetch(out, res) == out.exc

\* Whether an exception of the try block leaves the loop: except Exception
\* catches it and continues.
escapes(out, res) == FALSE

NoOutcome == [exc |-> FALSE, df |-> <<>>, fault |-> "pending"]

\* submit_counts without the set(): one task per element of the input list.
submit_counts_list(final_ticker_list) ==
    [t \in Range(final_ticker_list) |->
        Cardinality({i \in 1..Len(final_ticker_list) : final_ticker_list[i] = t})]

\* cleaned_tickers = list(set(final_ticker_list)) and one executor.submit per
\* element of it: the number of tasks submitted for each ticker.
submit_counts(final_ticker_list) == [t \in Range(final_ticker_list) |-> 1]

----------------------------------------------------------------------------
VARIABLES
    df, safety, ind, row, analysis,
    pc, nscans, scan_mode, cleaned_tickers, total_tickers, submitted, futures,
    yielded, completed_count, progress, valid_results, scan_results, message

engineVars == <<df, safety, ind, row, analysis>>

scanVars ==
    <<pc, nscans, scan_mode, cleaned_tickers, total_tickers, submitted, futures,
      yielded, completed_count, progress, valid_results, scan_results, message>>

vars == <<engineVars, scanVars>>

\* No frame fetched, nothing computed.
EngineIdle ==
    /\ df = <<>>
    /\ safety = <<>>
    /\ ind = <<>>
    /\ row = NoRow
    /\ analysis = NoAnalysis

\* The screener page before any scan: no 'scan_results' in the session.
ScanIdle ==
    /\ pc = "idle"
    /\ nscans = 0
    /\ scan_mode = "MANUAL"
    /\ cleaned_tickers = {}
    /\ total_tickers = 0
    /\ submitted = <<>>
    /\ futures = <<>>
    /\ yielded = {}
    /\ completed_count = 0
    /\ progress = 0
    /\ valid_results = <<>>
    /\ scan_results = <<>>
    /\ message = ""


----------------------------------------------------------------------------
(* The engine on its inputs *)

InitEngine == EngineIdle /\ ScanIdle

\* The data source delivers one more bar.
AppendBar ==
    /\ safety = <<>> /\ ind = <<>> /\ row = NoRow
    /\ \E b \in BarTypes :
        /\ InBounds(Append(df, b))
        /\ df' = Append(df, b)
    /\ UNCHANGED <<safety, ind, row, analysis, scanVars>>

CheckSafety ==
    /\ safety = <<>> /\ ind = <<>> /\ row = NoRow
    /\ safety' = check_safety_criteria(df)
    /\ UNCHANGED <<df, ind, row, analysis, scanVars>>

\* calculate_indicators on a non-empty frame, then df.iloc[-1].
CalculateIndicators ==
    /\ Len(df) >= 1 /\ ind = <<>> /\ row = NoRow
    /\ ind' = calculate_indicators(df)
    /\ row' = ind'[Len(df)]
    /\ UNCHANGED <<df, safety, analysis, scanVars>>

\* analyze_single_row called on a row of the caller's.
PickRow ==
    /\ df = <<>> /\ safety = <<>> /\ row = NoRow
    /\ row' \in RowValues
    /\ UNCHANGED <<df, safety, ind, analysis, scanVars>>

Analyze ==
    /\ row # NoRow /\ analysis = NoAnalysis
    /\ analysis' = analyze_single_row(row)
    /\ UNCHANGED <<df, safety, ind, row, scanVars>>

\* Steps 2 to 4 of the scan loop's body on a frame that passed the safety
\* filter: the row of the ticker is appended to valid_results.
BuildRow ==
    /\ safety # <<>> /\ safety[1]
    /\ ind # <<>> /\ valid_results = <<>>
    /\ valid_results' = <<result_row(<<"T">>, ind)>>
    /\ UNCHANGED <<engineVars, pc, nscans, scan_mode, cleaned_tickers, total_tickers,
                   submitted, futures, yielded, completed_count, progress,
                   scan_results, message>>

NextEngine ==
    \/ BuildRow
    \/ AppendBar
    \/ CheckSafety
    \/ CalculateIndicators
    \/ PickRow
    \/ Analyze

SpecEngine == InitEngine /\ [][NextEngine]_vars

----------------------------------------------------------------------------
(* The scan as a state machine *)

Init == EngineIdle /\ ScanIdle

\* Lines 314-333: the locals of a scan and one submitted task per ticker.
StartScan(mode, final_ticker_list) ==
    /\ scan_mode' = mode
    /\ cleaned_tickers' = Range(final_ticker_list)
    /\ total_tickers' = Cardinality(Range(final_ticker_list))
    /\ submitted' = submit_counts(final_ticker_list)
    /\ futures' = [t \in Range(final_ticker_list) |-> [status |-> "queued", out |-> NoOutcome]]
    /\ yielded' = {}
    /\ completed_count' = 0
    /\ progress' = 0
    /\ valid_results' = <<>>
    /\ message' = "Scanning Market..."
    /\ pc' = "scanning"
    /\ UNCHANGED scan_results

\* The SCAN MARKET button with a text area content and a selected sector.
ScanButton ==
    /\ pc \in {"idle", "stopped", "done"}
    /\ nscans < MaxScans
    /\ nscans' = nscans + 1
    /\ \E d \in ScanRequests :
        IF d.stop
        THEN /\ message' = "Please select a Sector OR input tickers manually."
             /\ pc' = "stopped"
             /\ UNCHANGED <<scan_mode, cleaned_tickers, total_tickers, submitted,
                            futures, yielded, completed_count, progress,
                            valid_results, scan_results>>
        ELSE StartScan(d.scan_mode, d.final_ticker_list)
    /\ UNCHANGED engineVars

Running == {t \in cleaned_tickers : futures[t].status = "running"}

\* worker_available of a pool that starts a thread for every task.
worker_available_always(running) == TRUE

\* ThreadPoolExecutor(max_workers=8): a queued task starts only while fewer
\* than max_workers tasks are running.
worker_available(running) == running < MaxWorkers

\* A worker of the pool takes a submitted task.
WorkerStart ==
    /\ pc = "scanning"
    /\ worker_available(Cardinality(Running))
    /\ \E t \in cleaned_tickers :
        /\ futures[t].status = "queued"
        /\ futures' = [futures EXCEPT ![t].status = "running"]
    /\ UNCHANGED <<engineVars, pc, nscans, scan_mode, cleaned_tickers, total_tickers,
                   submitted, yielded, completed_count, progress, valid_results,
                   scan_results, message>>

\* The task of ticker t ends with the outcome out: its future is done.
task_done(t, out) ==
    /\ futures[t].status = "running"
    /\ futures' = [futures EXCEPT ![t] = [status |-> "done", out |-> out]]

\* ingest.fetch_data(t) ends in a worker.
WorkerFinish ==
    /\ pc = "scanning"
    /\ \E t \in cleaned_tickers, out \in FetchOutcomes : task_done(t, out)
    /\ UNCHANGED <<engineVars, pc, nscans, scan_mode, cleaned_tickers, total_tickers,
                   submitted, yielded, completed_count, progress, valid_results,
                   scan_results, message>>

\* One iteration of the as_completed loop, lines 335-375.
LoopIteration ==
    /\ pc = "scanning"
    /\ \E t \in cleaned_tickers \ yielded :
        /\ futures[t].status = "done"
        /\ LET res == try_body(t, futures[t].out)
           IN  /\ completed_count' = increment_completed(completed_count, res.raised)
               /\ progress' = progress_of(completed_count', total_tickers)
               /\ valid_results' = valid_results \o res.rows
               /\ pc' = IF escapes(futures[t].out, res) THEN "crashed" ELSE pc
        /\ yielded' = yielded \cup {t}
        /\ message' = "Scanning"
    /\ UNCHANGED <<engineVars, nscans, scan_mode, cleaned_tickers, total_tickers,
                   submitted, futures, scan_results>>

\* loop_exhausted of a loop left after its first iteration.
loop_exhausted_early(done, all) == done # {} \/ all = {}

\* The for loop over as_completed(future_to_ticker) and the with block of
\* the executor end when every submitted future has been yielded.
loop_exhausted(done, all) == done = all

\* Lines 377-396, once the loop has yielded every future.
Aggregate ==
    /\ pc = "scanning"
    /\ loop_exhausted(yielded, cleaned_tickers)
    /\ IF valid_results = <<>>
       THEN /\ message' = "No stocks passed the Safety Filters"
            /\ UNCHANGED scan_results
       ELSE /\ scan_results' \in rank(scan_mode, valid_results)
            /\ message' = IF scan_mode = "SECTOR_TOP10" THEN "Displaying Top 10" ELSE ""
    /\ pc' = "done"
    /\ UNCHANGED <<engineVars, nscans, scan_mode, cleaned_tickers, total_tickers,
                   submitted, futures, yielded, completed_count, progress,
                   valid_results>>

Next ==
    \/ ScanButton
    \/ WorkerStart
    \/ WorkerFinish
    \/ LoopIteration
    \/ Aggregate

Spec == Init /\ [][Next]_vars

----------------------------------------------------------------------------
(* The ranking on collected results *)

MaxRows == 11
MaxRowTail == 4

\* Frames whose rows differ in score and in RVOL: a spike (score 4, RVOL
\* 3.48), two spike bars (5, 3.08), a spike after thin trading (4, 4.21).
DoubleSpikeSeries == Rep(FlatBar, 18) \o <<UpBar, UpBar>>
ThinSpikeSeries == Rep(FlatBar, 15) \o Rep(ZeroBar, 4) \o <<UpBar>>
RankRows ==
    {Pipeline(d).fields : d \in {SpikeSeries, DoubleSpikeSeries, ThinSpikeSeries}}

\* Frames of a manual list, each with its own Max RVOL (14D): 1.00, 3.08,
\* 3.48 (0.87 on the last bar), 3.64, 3.81, 4.21.
MaxManualTail == 2
ThinSpike(k) == Rep(FlatBar, 19 - k) \o Rep(ZeroBar, k) \o <<UpBar>>
SpikeThenFlatSeries == SpikeSeries \o <<FlatBar>>
ManualFrames ==
    <<FlatSeries, DoubleSpikeSeries, SpikeThenFlatSeries, ThinSpike(1), ThinSpike(2),
      ThinSpikeSeries>>
ManualRows == [k \in 1..Len(ManualFrames) |-> Pipeline(ManualFrames[k]).fields]

\* The collected lists of a manual scan in the model: the rows of
\* ManualFrames in turn, followed by at most MaxManualTail rows of any of them.
InManualBounds(q) ==
    /\ Len(q) <= MaxRows
    /\ \E p \in 0..Len(q) :
        /\ Len(q) - p <= MaxManualTail
        /\ \A i \in 1..p :
              [q[i] EXCEPT !.Ticker = <<>>] = ManualRows[((i - 1) % Len(ManualRows)) + 1]

\* The n-th ticker of a collected list.
RankTicker(n) == [i \in 1..n |-> "T"]

\* The collected lists of the model: a run of rows of one frame followed by
\* at most MaxRowTail rows of any frame, at most MaxRows rows in all.
InRankBounds(q) ==
    /\ Len(q) <= MaxRows
    /\ Len(q) - RunLen([i \in 1..Len(q) |-> [q[i] EXCEPT !.Ticker = <<>>]]) <= MaxRowTail

\* The loop of a scan, before its first future is yielded.
InitRank ==
    /\ EngineIdle
    /\ pc = "scanning"
    /\ nscans = 1
    /\ scan_mode \in {"SECTOR_TOP10", "MANUAL"}
    /\ cleaned_tickers = {}
    /\ total_tickers = 0
    /\ submitted = <<>>
    /\ futures = <<>>
    /\ yielded = {}
    /\ completed_count = 0
    /\ progress = 0
    /\ valid_results = <<>>
    /\ scan_results = <<>>
    /\ message = "Scanning Market..."

\* valid_results.append(...) for one more ticker that passed.
CollectRow ==
    /\ pc = "scanning"
    /\ \E r \in RankRows \cup Range(ManualRows) :
        LET q == Append(valid_results, [r EXCEPT !.Ticker = RankTicker(Len(valid_results) + 1)])
        IN  /\ IF scan_mode = "SECTOR_TOP10"
               THEN r \in RankRows /\ InRankBounds(q)
               ELSE r \in Range(ManualRows) /\ InManualBounds(q)
            /\ valid_results' = q
    /\ UNCHANGED <<engineVars, pc, nscans, scan_mode, cleaned_tickers, total_tickers,
                   submitted, futures, yielded, completed_count, progress,
                   scan_results, message>>

NextRank ==
    \/ CollectRow
    \/ Aggregate

SpecRank == InitRank /\ [][NextRank]_vars

----------------------------------------------------------------------------
(* The worker pool on ticker lists longer than the pool *)

MaxTickers == 9

\* A ticker list of n distinct tickers, the first of them given twice when
\* repeat holds.
PoolList(n, repeat) ==
    [i \in 1..n |-> RankTicker(i)] \o (IF repeat /\ n > 0 THEN <<RankTicker(1)>> ELSE <<>>)

\* The fetches of these scans return an empty frame.
PoolOutcomes == {[exc |-> FALSE, df |-> <<>>, fault |-> "none"]}

\* The SCAN MARKET button with a manual list of up to MaxTickers tickers.
ScanLongList ==
    /\ pc = "idle"
    /\ nscans' = nscans + 1
    /\ \E n \in 0..MaxTickers, repeat \in BOOLEAN :
        StartScan("MANUAL", PoolList(n, repeat))
    /\ UNCHANGED engineVars

\* ingest.fetch_data(t) ends in a worker, with an empty frame.
PoolFinish ==
    /\ pc = "scanning"
    /\ \E t \in cleaned_tickers, out \in PoolOutcomes : task_done(t, out)
    /\ UNCHANGED <<engineVars, pc, nscans, scan_mode, cleaned_tickers, total_tickers,
                   submitted, yielded, completed_count, progress, valid_results,
                   scan_results, message>>

\* The submissions and the workers of the pool; the loop of the main thread
\* that consumes the futures is in Next.
NextPool ==
    \/ ScanLongList
    \/ WorkerStart
    \/ PoolFinish

SpecPool == Init /\ [][NextPool]_vars

----------------------------------------------------------------------------
(* Claims about the engine, checked under SpecEngine *)

RECURSIVE SumVolume(_, _, _)
\* d[lo].volume + ... + d[hi].volume, in volume units.
SumVolume(d, lo, hi) ==
    IF lo > hi THEN 0 ELSE SumVolume(d, lo, hi - 1) + d[hi].volume

\* (mean volume of the trailing 20 bars) x (last close) >= 2,000,000,000,
\* multiplied out: sum20 * VolUnit * close >= 20 * 2,000,000,000.
LiquidEnough(d) ==
    SumVolume(d, Len(d) - 19, Len(d)) * d[Len(d)].close
        >= 20 * (2000000000 \div VolUnit)

RowFinite(r) ==
    /\ IsFinite(r.rvol) /\ IsFinite(r.cmf) /\ IsFinite(r.mfi)
    /\ IsFinite(r.close) /\ IsFinite(r.vwap)

\* C2: for a row with finite rvol, cmf, mfi, close and vwap the score is an
\* integer in 0..5.
C2_ScoreRange ==
    (analysis # NoAnalysis /\ RowFinite(row)) => analysis.score \in 0..5

\* All four rules fire (six points) and the score is capped to 5.
C2_Witness ==
    /\ analysis # NoAnalysis /\ RowFinite(row)
    /\ raw_score(row) = 6
    /\ analysis.score = 5

\* C3: the status is decided by the final score alone: >= 4 STRONG BUY,
\* 2..3 ACCUMULATION, < 2 NEUTRAL/WAIT.
C3_StatusOfScore ==
    analysis # NoAnalysis =>
        /\ analysis.score >= 4 => analysis.status = "STRONG BUY"
        /\ (analysis.score >= 2 /\ analysis.score < 4) => analysis.status = "ACCUMULATION"
        /\ analysis.score < 2 => analysis.status = "NEUTRAL/WAIT"

\* A row scored exactly 4, the lowest STRONG BUY.
C3_Witness == analysis # NoAnalysis /\ analysis.score = 4 /\ analysis.status = "STRONG BUY"

\* The rules of the scorer on the numerators and denominators of a row.
PointsA(r) == IF 2 * r.rvol.n > 3 * r.rvol.d THEN 2 ELSE 0
PointsB(r) ==
    IF 100 * r.cmf.n > 15 * r.cmf.d THEN 2
    ELSE IF 100 * r.cmf.n > 5 * r.cmf.d THEN 1 ELSE 0
PointsC(r) == IF r.close.n * r.vwap.d > r.vwap.n * r.close.d THEN 1 ELSE 0
PointsD(r) == IF r.mfi.n < 30 * r.mfi.d /\ PointsC(r) = 1 THEN 1 ELSE 0

\* C4: the score is min(5, A + B + C + D), every comparison strict.
C4_ScoreFormula ==
    (analysis # NoAnalysis /\ RowFinite(row)) =>
        analysis.score = Min(5, PointsA(row) + PointsB(row) + PointsC(row) + PointsD(row))

\* A row on the thresholds: rvol = 1.5, cmf = 0.15, close = vwap, mfi = 30
\* scores only the moderate-inflow point.
C4_Witness ==
    /\ analysis # NoAnalysis
    /\ row.rvol = RvolSpike /\ row.cmf = CmfStrong
    /\ row.close = row.vwap /\ row.mfi = Num(MfiOversold)
    /\ analysis.score = 1

\* C5: after calculate_indicators every row's rvol, rsi, mfi and cmf is
\* finite.
C5_Finite ==
    \A i \in 1..Len(ind) :
        /\ IsFinite(ind[i].rvol) /\ IsFinite(ind[i].rsi)
        /\ IsFinite(ind[i].mfi) /\ IsFinite(ind[i].cmf)

\* Indicators of a series of at least 20 bars with high = low and zero
\* volume on every bar.
C5_Witness ==
    /\ Len(ind) >= 20
    /\ \A i \in 1..Len(df) : df[i].high = df[i].low /\ df[i].volume = 0

\* C6 as stated: mfi is 50 on every row whose negative money-flow sum is
\* zero or undefined.
C6_Original ==
    \A i \in 1..Len(ind) :
        (IsNaN(ind[i].negative_mf_sum) \/ ind[i].negative_mf_sum = Num(0))
            => ind[i].mfi = Num(50)

\* C6 amended: mfi is 50 where the window is undefined or both sums are
\* zero, and 100 where the negative sum is zero and the positive sum is not.
C6_Amended ==
    \A i \in 1..Len(ind) :
        /\ (i < 14 \/ (ind[i].negative_mf_sum = Num(0) /\ ind[i].positive_mf_sum = Num(0)))
              => ind[i].mfi = Num(50)
        /\ (i >= 14 /\ ind[i].negative_mf_sum = Num(0) /\ GT(ind[i].positive_mf_sum, Num(0)))
              => ind[i].mfi = Num(100)

\* A full window with positive flow only, one with no flow at all, and a
\* row without a full window.
C6_Witness ==
    /\ \E i \in 1..Len(ind) :
          i >= 14 /\ ind[i].negative_mf_sum = Num(0) /\ GT(ind[i].positive_mf_sum, Num(0))
    /\ \E i \in 1..Len(ind) :
          i >= 14 /\ ind[i].negative_mf_sum = Num(0) /\ ind[i].positive_mf_sum = Num(0)

----------------------------------------------------------------------------
(* Claims about the scan, checked under Spec and SpecRank *)

Rows(q, t) == {i \in 1..Len(q) : q[i].Ticker = t}

\* The outcome of ticker t failed: its fetch raised or returned no data, or a
\* later step raised.
Failed(t) ==
    \/ futures[t].out.exc
    \/ futures[t].out.df = <<>>
    \/ futures[t].out.fault # "none"

\* C7: a failure in one ticker's fetch, filter, indicator or scoring step
\* never leaves the loop: the loop goes on with every completed future, the
\* scan ends only after every ticker was processed, the failing ticker
\* contributes no row and every ticker that passed has its row.
C7_FailureContained ==
    /\ pc # "crashed"
    /\ (pc = "scanning" /\ \E t \in cleaned_tickers \ yielded : futures[t].status = "done")
          => ENABLED LoopIteration
    /\ pc = "done" => yielded = cleaned_tickers
    /\ pc \in {"scanning", "done"} =>
          \A t \in yielded :
              /\ Failed(t) => Rows(valid_results, t) = {}
              /\ Passes(futures[t].out) => Rows(valid_results, t) # {}

\* A finished scan in which one ticker's future raised, one met an exception
\* while its indicators were computed, and a third one has its row.
C7_Witness ==
    /\ pc = "done"
    /\ \E t \in cleaned_tickers : futures[t].out.exc
    /\ \E t \in cleaned_tickers : futures[t].out.fault = "indicators"
    /\ \E t \in cleaned_tickers : Rows(valid_results, t) # {}

\* A ticker as the claim identifies it: upper-cased, all whitespace removed.
Normalized(t) == LET Kept(c) == c \notin Whitespace IN SelectSeq(Upper(t), Kept)

\* C8 as stated: when all tasks have completed the collected list holds
\* exactly one row for each ticker that passed and none for any other, and no
\* ticker appears twice, tickers being told apart after upper-casing and
\* whitespace removal.
C8_Original ==
    (pc = "scanning" /\ yielded = cleaned_tickers) =>
        /\ \A t \in cleaned_tickers :
              Cardinality(Rows(valid_results, t)) = IF Passes(futures[t].out) THEN 1 ELSE 0
        /\ \A i \in 1..Len(valid_results) : valid_results[i].Ticker \in cleaned_tickers
        /\ \A i, j \in 1..Len(valid_results) :
              Normalized(valid_results[i].Ticker) = Normalized(valid_results[j].Ticker)
                  => i = j

\* C9: completed_count grows by exactly one with each future the loop
\* yields, whatever the ticker's outcome, never decreases during a scan, never
\* exceeds the number of tickers, and equals it when the loop has ended.
C9_Progress ==
    [][(pc = "scanning" /\ pc' \in {"scanning", "done"}) =>
          /\ completed_count' >= completed_count
          /\ yielded' # yielded => completed_count' = completed_count + 1
          /\ yielded' = yielded => completed_count' = completed_count
          /\ completed_count' <= total_tickers'
          /\ completed_count' = Cardinality(yielded')
          /\ pc' = "done" => completed_count' = total_tickers']_vars

\* The loop has ended after three tickers, one that raised, one rejected by
\* the safety filter, one that passed.
C9_Witness ==
    /\ pc = "done"
    /\ completed_count = 3
    /\ \E t \in cleaned_tickers : futures[t].out.exc
    /\ \E t \in cleaned_tickers : futures[t].out.df = ShortSeries
    /\ \E t \in cleaned_tickers : Passes(futures[t].out)

\* (Score, RVOL) of a is strictly greater than that of b.
KeyGreater(a, b) ==
    \/ a.Score > b.Score
    \/ a.Score = b.Score /\ a.RVOL.n * b.RVOL.d > b.RVOL.n * a.RVOL.d

\* C10: the table of a sector scan is sorted non-increasing by Signal Score,
\* then RVOL (Today), has at most 10 rows, all of them collected rows, and
\* no collected row left out has a strictly greater key than a row kept.
C10_TopTen ==
    (pc = "done" /\ scan_mode = "SECTOR_TOP10" /\ valid_results # <<>>) =>
        /\ Len(scan_results) = Min(10, Len(valid_results))
        /\ \A i \in 1..(Len(scan_results) - 1) :
              ~KeyGreater(scan_results[i + 1], scan_results[i])
        /\ \A i \in 1..Len(scan_results) :
              /\ Rows(valid_results, scan_results[i].Ticker) # {}
              /\ \A k \in Rows(valid_results, scan_results[i].Ticker) :
                    valid_results[k] = scan_results[i]
        /\ \A i, j \in 1..Len(scan_results) :
              scan_results[i].Ticker = scan_results[j].Ticker => i = j
        /\ \A k \in 1..Len(valid_results) :
              (\A i \in 1..Len(scan_results) : scan_results[i] # valid_results[k])
                  => \A i \in 1..Len(scan_results) :
                        ~KeyGreater(valid_results[k], scan_results[i])

\* Eleven rows were collected, the last one with the highest score: it is
\* first in the table, and a row of the lowest key is left out.
C10_Witness ==
    /\ pc = "done" /\ scan_mode = "SECTOR_TOP10"
    /\ Len(valid_results) = 11
    /\ Len(scan_results) = 10
    /\ scan_results[1] = valid_results[11]
    /\ \E i, j \in 1..10 :
          /\ scan_results[i].Score = scan_results[j].Score
          /\ scan_results[i].RVOL # scan_results[j].RVOL

----------------------------------------------------------------------------
(* Claims about the manual ranking, checked under SpecRank *)

\* The number of places of q that hold r.
Count(q, r) == Cardinality({i \in 1..Len(q) : q[i] = r})

\* C11: in manual-list mode the output table holds exactly the collected
\* rows, each as often as it was collected (nothing truncated, added or lost),
\* in non-increasing order of Max RVOL (14D).
C11_ManualTable ==
    (pc = "done" /\ scan_mode = "MANUAL" /\ valid_results # <<>>) =>
        /\ Len(scan_results) = Len(valid_results)
        /\ \A i \in 1..Len(valid_results) :
              Count(scan_results, valid_results[i]) = Count(valid_results, valid_results[i])
        /\ \A i \in 1..(Len(scan_results) - 1) :
              ~LT(scan_results[i].MaxRVOL, scan_results[i + 1].MaxRVOL)

\* A manual table of more than ten rows, two of them in the opposite order of
\* RVOL (Today), and collected in another order than the table shows.
C11_Witness ==
    /\ pc = "done" /\ scan_mode = "MANUAL"
    /\ Len(scan_results) > TopN
    /\ scan_results # valid_results
    /\ \E i \in 1..(Len(scan_results) - 1) :
          /\ GT(scan_results[i].MaxRVOL, scan_results[i + 1].MaxRVOL)
          /\ LT(scan_results[i].RVOL, scan_results[i + 1].RVOL)

----------------------------------------------------------------------------
(* Claims about a whole scan, checked under Spec *)

\* The orders in which the futures of the tickers S may be yielded.
Orders(S) == {ord \in [1..Cardinality(S) -> S] : Range(ord) = S}

RECURSIVE CollectedIn(_)
\* valid_results of the run of this scan, on the same fetched data, whose
\* loop yields the futures in the order ord.
CollectedIn(ord) ==
    IF ord = <<>> THEN <<>>
    ELSE LET t == ord[Len(ord)]
         IN  CollectedIn(SubSeq(ord, 1, Len(ord) - 1)) \o try_body(t, futures[t].out).rows

\* C12: the ranked output of a scan does not depend on the order in which the
\* per-ticker tasks complete: every run on the same ticker set and the same
\* fetched data ends with the table this run ends with.
C12_Original ==
    (pc = "done" /\ valid_results # <<>>) =>
        \A ord \in Orders(cleaned_tickers) :
            rank(scan_mode, CollectedIn(ord)) = {scan_results}

\* The scan request came with an empty ticker set: neither a sector nor a
\* manual text, or a manual text without a ticker in it.
EmptyRequest ==
    pc = "stopped" \/ (pc \in {"scanning", "done"} /\ cleaned_tickers = {})

\* C13: a scan requested with an empty ticker set dispatches no fetch task
\* and ends with an outcome of its own, never with the message of a scan in
\* which no stock passed the safety filters.
C13_Original ==
    /\ (pc \in {"scanning", "done"} /\ cleaned_tickers = {}) => DOMAIN submitted = {}
    /\ (EmptyRequest /\ pc # "scanning") =>
            message # "No stocks passed the Safety Filters"

\* C14: when the most recent scan had tickers to scan and none survived, the
\* result table shown after it holds no rows (none of an earlier scan either)
\* and comes with the message that no stock passed.
C14_Original ==
    (pc = "done" /\ cleaned_tickers # {} /\ valid_results = <<>>) =>
        /\ message = "No stocks passed the Safety Filters"
        /\ scan_results = <<>>

----------------------------------------------------------------------------
(* Claims about the worker pool, checked under SpecPool *)

\* C15: during a scan exactly one fetch task has been submitted for each
\* distinct ticker of the list, and at most 8 fetch tasks are running at any
\* moment, however many tickers there are.
C15_WorkerPool ==
    pc \in {"scanning", "done"} =>
        /\ DOMAIN submitted = cleaned_tickers
        /\ \A t \in cleaned_tickers : submitted[t] = 1
        /\ DOMAIN futures = cleaned_tickers
        /\ Cardinality(Running) <= 8

\* Eight tasks running while a ninth waits in the queue.
C15_Witness ==
    /\ pc = "scanning"
    /\ Cardinality(cleaned_tickers) > 8
    /\ Cardinality(Running) = 8
    /\ \E t \in cleaned_tickers : futures[t].status = "queued"

----------------------------------------------------------------------------
(* Claims about the order of the steps of a scan, checked under Spec *)

\* C16: the ranking step starts only when every submitted task has completed
\* and the loop has recorded its outcome (a row for each ticker that passed,
\* nothing for the others), no worker is running while it executes, and from
\* then on no row is appended to valid_results (until the next scan empties
\* it).
C16_RankAfterJoin ==
    [][/\ (pc = "scanning" /\ pc' = "done") =>
            /\ \A t \in cleaned_tickers : futures[t].status = "done"
            /\ Running = {}
            /\ yielded = cleaned_tickers
            /\ completed_count = total_tickers
            /\ Len(valid_results) =
                   Cardinality({t \in cleaned_tickers : Passes(futures[t].out)})
       /\ pc = "done" =>
            \/ valid_results' = valid_results
            \/ pc' = "scanning" /\ valid_results' = <<>>]_vars

\* A finished scan of three tickers, one with a row and one dropped.
C16_Witness ==
    /\ pc = "done"
    /\ Cardinality(cleaned_tickers) = 3
    /\ valid_results # <<>>
    /\ \E t \in cleaned_tickers : ~Passes(futures[t].out)
    /\ scan_results # <<>>

----------------------------------------------------------------------------
(* Claims about the row of a ticker, checked under SpecEngine *)

\* C17: in every row of a scan Max RVOL (14D) >= RVOL (Today): the frame has
\* at least 14 indicator rows, Max RVOL (14D) is the largest rounded rvol of the
\* trailing 14 of them, and RVOL (Today) is the rounded rvol of the last one.
C17_MaxRvolDominates ==
    \A i \in 1..Len(valid_results) :
        LET r == valid_results[i]
            n == Len(ind)
            window == (n - RecentRows + 1)..n
        IN  /\ n >= RecentRows
            /\ r.RVOL = Round(ind[n].rvol, 100)
            /\ \E j \in window : r.MaxRVOL = Round(ind[j].rvol, 100)
            /\ \A j \in window : ~LT(r.MaxRVOL, Round(ind[j].rvol, 100))
            /\ ~LT(r.MaxRVOL, r.RVOL)

\* A row whose last bar is quieter than a spike earlier in its window.
C17_Witness ==
    /\ valid_results # <<>>
    /\ GT(valid_results[1].MaxRVOL, valid_results[1].RVOL)
    /\ Len(ind) > 20

====
